---- MODULE Spec2Model ----
(***************************************************************************)
(* Model of the rag_extraction LangGraph pipeline:                         *)
(*   retrieve_chunk -> extract_entities -> enhance_relationships           *)
(*   -> store_results -> END                                               *)
(* Strings that the code inspects character by character (chunk text,      *)
(* entity names, definitions) are sequences of one-character strings.      *)
(* Optional values are None == <<>> or Some(v) == <<v>>.                   *)
(***************************************************************************)
EXTENDS Integers, Sequences, FiniteSets, TLC

VARIABLES
    pc,           \* position of the run in the graph of graph.py
    idx,          \* index of the extractor task extract_entities awaits next
    state,        \* the ExtractionState record threaded through the nodes
    lookup,       \* outcome of the last get_chunk_data call
    conn,         \* number of Neo4jClient drivers currently open
    opened,       \* number of Neo4jClient drivers opened so far
    graph,        \* the property graph held by the graph store
    llm_log,      \* completion requests issued so far, in order
    write_log,    \* store queries issued so far, in order
    responses,    \* the completion each request made so far came back with
    raised,       \* the node whose exception escaped, or "none"
    store_run,    \* store_results invocations started (storage runs)
    snapshot,     \* graph after the first completed store_entities call
    probe_in,     \* arguments of the pure function under study
    probe_out     \* its result, None until applied

vars == <<pc, idx, state, lookup, conn, opened, graph, llm_log, write_log,
          responses, raised, store_run, snapshot, probe_in, probe_out>>

----------------------------------------------------------------------------
(* Optional values and Python-like string primitives                       *)

None == <<>>
Some(v) == <<v>>

Rep(c, n) == [i \in 1..n |-> c]

UpperChars == <<"A","B","C","D","E","F","G","H","I","J","K","L","M",
                "N","O","P","Q","R","S","T","U","V","W","X","Y","Z">>
LowerChars == <<"a","b","c","d","e","f","g","h","i","j","k","l","m",
                "n","o","p","q","r","s","t","u","v","w","x","y","z">>
DigitChars == {"0","1","2","3","4","5","6","7","8","9"}
SpaceChars == {" ", "\n", "\t", "\r"}

IsUpper(c) == \E i \in 1..26 : UpperChars[i] = c
IsAlpha(c) == \E i \in 1..26 : UpperChars[i] = c \/ LowerChars[i] = c
IsDigitChar(c) == c \in DigitChars
IsSpace(c) == c \in SpaceChars

\* str.lower()
LowerChar(c) ==
    IF IsUpper(c) THEN LowerChars[CHOOSE i \in 1..26 : UpperChars[i] = c]
    ELSE c
Lower(s) == [i \in 1..Len(s) |-> LowerChar(s[i])]

\* str.strip()
Strip(s) ==
    LET keep == {i \in 1..Len(s) : ~IsSpace(s[i])}
    IN  IF keep = {} THEN <<>>
        ELSE LET lo == CHOOSE i \in keep : \A j \in keep : i <= j
                 hi == CHOOSE i \in keep : \A j \in keep : j <= i
             IN  SubSeq(s, lo, hi)

\* sub in s
Contains(sub, s) ==
    \E i \in 1..(Len(s) - Len(sub) + 1) : SubSeq(s, i, i + Len(sub) - 1) = sub

\* s.startswith(pre)
StartsWith(s, pre) == Len(s) >= Len(pre) /\ SubSeq(s, 1, Len(pre)) = pre

\* s.count(c) for a one-character c
CountChar(s, c) == Cardinality({i \in 1..Len(s) : s[i] = c})

\* s.replace(c, '') for a one-character c
RemoveChar(s, c) == SelectSeq(s, LAMBDA x : x # c)

\* s.split('\n')
RECURSIVE SplitLines(_)
SplitLines(s) ==
    IF \A i \in 1..Len(s) : s[i] # "\n" THEN <<s>>
    ELSE LET k == CHOOSE i \in 1..Len(s) :
                      s[i] = "\n" /\ \A j \in 1..(i - 1) : s[j] # "\n"
         IN  <<SubSeq(s, 1, k - 1)>> \o SplitLines(SubSeq(s, k + 1, Len(s)))

\* ' '.join(lines)
RECURSIVE JoinSpace(_)
JoinSpace(lines) ==
    IF lines = <<>> THEN <<>>
    ELSE IF Len(lines) = 1 THEN lines[1]
    ELSE lines[1] \o <<" ">> \o JoinSpace(Tail(lines))

Range(seq) == {seq[i] : i \in 1..Len(seq)}

----------------------------------------------------------------------------
(* utils/validators.py: should_process_chunk                               *)

MinChunkLen == 50
ImageNewlineLimit == 2
MinNonNavLen == 100
MinRepetitiveLines == 5
MinContentTypeLen == 200
MaxDollarCount == 10
MinFormulaContextLen == 50

navigation_patterns ==
    << <<"#", " ", "T", "a", "b", "l", "e", " ", "o", "f", " ",
         "C", "o", "n", "t", "e", "n", "t", "s">>,
       <<"#", "#", " ", "P", "a", "g", "e">>,
       <<"C", "l", "i", "c", "k", " ", "h", "e", "r", "e">>,
       <<"S", "e", "e", " ", "p", "a", "g", "e">>,
       <<"P", "a", "g", "e", " ">>,
       <<".", ".", ".">>,
       <<"#", "#">>,
       <<"C", "h", "a", "p", "t", "e", "r", " ">>,
       <<"S", "e", "c", "t", "i", "o", "n", " ">> >>

content_types == {"paragraph", "section", "subsection"}

\* any(pattern.lower() in s.lower() for pattern in navigation_patterns)
HasNavPattern(s) ==
    LET low == Lower(s)
    IN  \E p \in 1..Len(navigation_patterns) :
            Contains(Lower(navigation_patterns[p]), low)

IsNonBlank(line) == Strip(line) # <<>>
IsNotNav(line) == ~HasNavPattern(line)

\* content_lines = [line.strip() for line in text.split('\n') if line.strip()]
ContentLines(text) ==
    LET kept == SelectSeq(SplitLines(text), IsNonBlank)
    IN  [i \in 1..Len(kept) |-> Strip(kept[i])]

NonNavLines(text) == SelectSeq(ContentLines(text), IsNotNav)

\* set(line.strip() for line in lines if line.strip())
UniqueLines(text) == Range(ContentLines(text))

\* bool(chunk_type) for an Optional[str]
Truthy(t) == t # None /\ t[1] # ""

\* should_process_chunk with the navigation rule tested before the length rule
should_process_chunk_nav_first(chunk_text, chunk_type) ==
    IF HasNavPattern(chunk_text)
       /\ Len(JoinSpace(NonNavLines(chunk_text))) < MinNonNavLen
    THEN <<FALSE, <<"navigation_only">> >>
    ELSE IF Len(Strip(chunk_text)) < MinChunkLen
    THEN <<FALSE, <<"chunk_too_short">> >>
    ELSE IF StartsWith(Strip(chunk_text), <<"!", "[">>)
            /\ CountChar(chunk_text, "\n") < ImageNewlineLimit
    THEN <<FALSE, <<"image_only_chunk">> >>
    ELSE IF Len(SplitLines(chunk_text)) > MinRepetitiveLines
            /\ 10 * Cardinality(UniqueLines(chunk_text))
                   < 3 * Len(SplitLines(chunk_text))
    THEN <<FALSE, <<"repetitive_content">> >>
    ELSE IF Truthy(chunk_type) /\ chunk_type[1] \notin content_types
            /\ Len(Strip(chunk_text)) < MinContentTypeLen
    THEN <<FALSE, <<"non_content_type_", chunk_type[1]>> >>
    ELSE IF CountChar(chunk_text, "$") > MaxDollarCount
            /\ Len(Strip(RemoveChar(chunk_text, "$"))) < MinFormulaContextLen
    THEN <<FALSE, <<"formula_only">> >>
    ELSE <<TRUE, <<>> >>

\* should_process_chunk with the type rule applied to an absent or empty type
should_process_chunk_any_type(chunk_text, chunk_type) ==
    IF Len(Strip(chunk_text)) < MinChunkLen
    THEN <<FALSE, <<"chunk_too_short">> >>
    ELSE IF StartsWith(Strip(chunk_text), <<"!", "[">>)
            /\ CountChar(chunk_text, "\n") < ImageNewlineLimit
    THEN <<FALSE, <<"image_only_chunk">> >>
    ELSE IF HasNavPattern(chunk_text)
            /\ Len(JoinSpace(NonNavLines(chunk_text))) < MinNonNavLen
    THEN <<FALSE, <<"navigation_only">> >>
    ELSE IF Len(SplitLines(chunk_text)) > MinRepetitiveLines
            /\ 10 * Cardinality(UniqueLines(chunk_text))
                   < 3 * Len(SplitLines(chunk_text))
    THEN <<FALSE, <<"repetitive_content">> >>
    ELSE IF (chunk_type = None \/ chunk_type[1] \notin content_types)
            /\ Len(Strip(chunk_text)) < MinContentTypeLen
    THEN <<FALSE, <<"non_content_type_",
                    IF chunk_type = None THEN "None" ELSE chunk_type[1]>> >>
    ELSE IF CountChar(chunk_text, "$") > MaxDollarCount
            /\ Len(Strip(RemoveChar(chunk_text, "$"))) < MinFormulaContextLen
    THEN <<FALSE, <<"formula_only">> >>
    ELSE <<TRUE, <<>> >>

\* The six rules read in the order in which the function tests them; the
\* result is the pair (should_process, reason).
should_process_chunk(chunk_text, chunk_type) ==
    IF Len(Strip(chunk_text)) < MinChunkLen
    THEN <<FALSE, <<"chunk_too_short">> >>
    ELSE IF StartsWith(Strip(chunk_text), <<"!", "[">>)
            /\ CountChar(chunk_text, "\n") < ImageNewlineLimit
    THEN <<FALSE, <<"image_only_chunk">> >>
    ELSE IF HasNavPattern(chunk_text)
            /\ Len(JoinSpace(NonNavLines(chunk_text))) < MinNonNavLen
    THEN <<FALSE, <<"navigation_only">> >>
    ELSE IF Len(SplitLines(chunk_text)) > MinRepetitiveLines
            /\ 10 * Cardinality(UniqueLines(chunk_text))
                   < 3 * Len(SplitLines(chunk_text))
    THEN <<FALSE, <<"repetitive_content">> >>
    ELSE IF Truthy(chunk_type) /\ chunk_type[1] \notin content_types
            /\ Len(Strip(chunk_text)) < MinContentTypeLen
    THEN <<FALSE, <<"non_content_type_", chunk_type[1]>> >>
    ELSE IF CountChar(chunk_text, "$") > MaxDollarCount
            /\ Len(Strip(RemoveChar(chunk_text, "$"))) < MinFormulaContextLen
    THEN <<FALSE, <<"formula_only">> >>
    ELSE <<TRUE, <<>> >>

----------------------------------------------------------------------------
(* utils/validators.py: validate_entity_name, validate_entity_definition   *)

MinNameLen == 3
MaxDigitNameLen == 2
MinDefinitionLen == 10
CircularSlack == 20

\* the six anchored fragments of truncation_patterns (r'^ly\s+' ...)
truncation_fragments ==
    << <<"l", "y">>, <<"i", "n", "g">>, <<"e", "d">>, <<"e", "r">>,
       <<"a", "n", "d">>, <<"t", "h", "e">> >>

\* the grave accent is written "GRAVE": the lexer rejects it inside a string
ocr_artifacts ==
    << <<"{">>, <<"}">>, <<"^">>, <<"_">>, <<"\\">>, <<"$", "$">>,
       <<"GRAVE">> >>

meaningless ==
    << <<"c", "l", "i", "c", "k", " ", "h", "e", "r", "e">>,
       <<"s", "e", "e", " ", "p", "a", "g", "e">>,
       <<"p", "a", "g", "e", " ">>,
       <<"c", "h", "a", "p", "t", "e", "r", " ">>,
       <<"s", "e", "c", "t", "i", "o", "n", " ">>,
       <<"f", "i", "g", "u", "r", "e", " ">>,
       <<"t", "a", "b", "l", "e", " ">>,
       <<"a", "p", "p", "e", "n", "d", "i", "x", " ">>,
       <<"i", "n", "d", "e", "x">>,
       <<"b", "i", "b", "l", "i", "o", "g", "r", "a", "p", "h", "y">> >>

meaningless_defs ==
    << <<"d", "e", "f", "i", "n", "i", "t", "i", "o", "n", " ", "n", "o", "t",
         " ", "p", "r", "o", "v", "i", "d", "e", "d">>,
       <<"s", "e", "e", " ", "a", "b", "o", "v", "e">>,
       <<"a", "s", " ", "m", "e", "n", "t", "i", "o", "n", "e", "d">>,
       <<"r", "e", "f", "e", "r", "s", " ", "t", "o">>,
       <<"u", "n", "k", "n", "o", "w", "n">>,
       <<"n", "/", "a">> >>

\* re.search(r'^frag\s+', name, re.IGNORECASE)
MatchesFragment(name, frag) ==
    /\ Len(name) > Len(frag)
    /\ SubSeq(Lower(name), 1, Len(frag)) = frag
    /\ IsSpace(name[Len(frag) + 1])

\* any(re.search(pattern, name, re.IGNORECASE) for pattern in truncation_patterns)
MatchesTruncation(name) ==
    \/ \E f \in 1..Len(truncation_fragments) :
           MatchesFragment(name, truncation_fragments[f])
    \/ Contains(<<".", ".", ".">>, name)

\* str.isdigit()
IsDigitStr(s) == s # <<>> /\ \A i \in 1..Len(s) : IsDigitChar(s[i])

\* sum(1 for c in name if c.isalpha())
AlphaCount(s) == Cardinality({i \in 1..Len(s) : IsAlpha(s[i])})

ContainsAny(phrases, s) == \E p \in 1..Len(phrases) : Contains(phrases[p], s)

\* validate_entity_name with the numeral check ahead of the length check
validate_entity_name_digit_first(raw_name) ==
    LET name == Strip(raw_name)
    IN  IF IsDigitStr(name) /\ Len(name) <= MaxDigitNameLen
        THEN <<FALSE, "single_digit">>
        ELSE IF Len(name) < MinNameLen THEN <<FALSE, "too_short">>
        ELSE IF MatchesTruncation(name) THEN <<FALSE, "truncated_name">>
        ELSE IF ContainsAny(ocr_artifacts, name) THEN <<FALSE, "ocr_artifact">>
        ELSE IF 2 * AlphaCount(name) < Len(name)
        THEN <<FALSE, "mostly_punctuation">>
        ELSE IF ContainsAny(meaningless, Lower(name))
        THEN <<FALSE, "meaningless_phrase">>
        ELSE <<TRUE, "">>

\* validate_entity_name with the artifact check ahead of the truncation check
validate_entity_name_ocr_first(raw_name) ==
    LET name == Strip(raw_name)
    IN  IF Len(name) < MinNameLen THEN <<FALSE, "too_short">>
        ELSE IF ContainsAny(ocr_artifacts, name) THEN <<FALSE, "ocr_artifact">>
        ELSE IF MatchesTruncation(name) THEN <<FALSE, "truncated_name">>
        ELSE IF IsDigitStr(name) /\ Len(name) <= MaxDigitNameLen
        THEN <<FALSE, "single_digit">>
        ELSE IF 2 * AlphaCount(name) < Len(name)
        THEN <<FALSE, "mostly_punctuation">>
        ELSE IF ContainsAny(meaningless, Lower(name))
        THEN <<FALSE, "meaningless_phrase">>
        ELSE <<TRUE, "">>

validate_entity_name(raw_name) ==
    LET name == Strip(raw_name)
    IN  IF Len(name) < MinNameLen THEN <<FALSE, "too_short">>
        ELSE IF MatchesTruncation(name) THEN <<FALSE, "truncated_name">>
        ELSE IF IsDigitStr(name) /\ Len(name) <= MaxDigitNameLen
        THEN <<FALSE, "single_digit">>
        ELSE IF ContainsAny(ocr_artifacts, name) THEN <<FALSE, "ocr_artifact">>
        ELSE IF 2 * AlphaCount(name) < Len(name)
        THEN <<FALSE, "mostly_punctuation">>
        ELSE IF ContainsAny(meaningless, Lower(name))
        THEN <<FALSE, "meaningless_phrase">>
        ELSE <<TRUE, "">>

validate_entity_definition(raw_definition, entity_name) ==
    IF raw_definition = <<>> \/ Len(Strip(raw_definition)) < MinDefinitionLen
    THEN <<FALSE, "too_short">>
    ELSE LET definition == Strip(raw_definition)
         IN  IF Contains(Lower(entity_name), Lower(definition))
                /\ Len(definition) < Len(entity_name) + CircularSlack
             THEN <<FALSE, "circular_definition">>
             ELSE IF ContainsAny(meaningless_defs, Lower(definition))
             THEN <<FALSE, "meaningless_definition">>
             ELSE <<TRUE, "">>

----------------------------------------------------------------------------
(* schemas/state.py, schemas/entities.py and the data the run meets        *)

\* ExtractionState(chunk_id=id) with the Field defaults.  processing_time
\* (wall-clock seconds) is not part of the model.
NewState(id) ==
    [chunk_id |-> id,
     chunk_text |-> None,
     chunk_metadata |-> None,
     chunk_type |-> None,
     extracted_entities |-> <<>>,
     entity_relationships |-> <<>>,
     errors |-> <<>>,
     warnings |-> <<>>,
     entity_count |-> 0,
     relationship_count |-> 0,
     should_process |-> TRUE,
     skip_reason |-> None]

\* [rt.value for rt in RelationshipType]
RelationshipType ==
    <<"RELATED_TO", "PREREQUISITE_OF", "PART_OF", "USES", "SIMILAR_TO",
      "APPLIED_IN">>

\* the keys of the extractors dict of extract_entities, in insertion order
Categories == <<"concept", "method", "formula", "example", "legal_principle">>
NumExtractors == Len(Categories)

\* The SemanticChunk nodes of the graph store: what
\*   MATCH (c:SemanticChunk {id: $chunk_id}) RETURN c.text, c.semantic_type, ...
\* yields for each id, None when no node has the id.  A property that the
\* node lacks comes back as null.
TextGradient == <<"G", "r", "a", "d", "i", "e", "n", "t", " ", "d", "e", "s", "c", "e",
    "n", "t", " ", "m", "i", "n", "i", "m", "i", "z", "e", "s", " ", "f", "(", "x", ")",
    " ", "=", " ", "x", "^", "2", " ", "b", "y", " ", "s", "t", "e", "p", "p", "i", "n",
    "g", " ", "d", "o", "w", "n", "h", "i", "l", "l", ".">>
TextCourt == <<"T", "h", "e", " ", "c", "o", "u", "r", "t", " ", "a", "p", "p", "l", "i",
    "e", "d", " ", "t", "h", "e", " ", "r", "u", "l", "e", " ", "f", "(", "x", ")", " ",
    "=", " ", "x", "^", "2", " ", "t", "o", " ", "t", "h", "e", " ", "p", "r", "e", "s",
    "e", "n", "t", " ", "d", "i", "s", "p", "u", "t", "e", " ", "t", "o", "d", "a", "y", ".">>
TextPage == <<"#", "#", " ", "P", "a", "g", "e", " ", "1", "2", "\n", ".", ".", ".">>
TextRevenue == <<"R", "e", "v", "e", "n", "u", "e", " ", "b", "y", " ", "q", "u", "a",
    "r", "t", "e", "r", " ", "a", "n", "d", " ", "r", "e", "g", "i", "o", "n", " ", "f",
    "o", "r", " ", "t", "h", "e", " ", "l", "a", "s", "t", " ", "f", "o", "u", "r", " ",
    "f", "i", "s", "c", "a", "l", " ", "y", "e", "a", "r", "s", ",", " ", "i", "n", " ",
    "t", "h", "o", "u", "s", "a", "n", "d", "s", ".">>

ChunkRow(text, type, pos) ==
    Some([text |-> text, chunk_type |-> type, token_count |-> Some(64),
          book_id |-> Some("b1"), position |-> Some(pos)])

ChunkIds == {"c0", "c1", "c2", "c3", "c4", "c5", "c6", "c7"}

ChunkTable ==
    [id \in ChunkIds |->
        CASE id = "c1" -> ChunkRow(Some(TextGradient), Some("paragraph"), 1)
          [] id = "c2" -> ChunkRow(Some(TextPage), Some("paragraph"), 2)
          [] id = "c3" -> ChunkRow(Some(TextCourt), Some("section"), 3)
          [] id = "c4" -> ChunkRow(None, Some("paragraph"), 4)
          [] id = "c5" -> ChunkRow(Some(TextRevenue), Some("table"), 5)
          [] id = "c6" -> ChunkRow(Some(TextCourt), None, 6)
          [] id = "c7" -> ChunkRow(Some(TextRevenue), Some("paragraph"), 7)
          [] OTHER -> None]

\* A parsed JSON value is tagged with its kind: "missing" (key absent),
\* "null", "str" (val is the character sequence, or the word itself for a
\* relationship type), "num" (val is the number in tenths) or "other" (a
\* non-empty list or object).
Missing == [kind |-> "missing", val |-> <<>>]
Null == [kind |-> "null", val |-> <<>>]
Str(s) == [kind |-> "str", val |-> s]
Num(n) == [kind |-> "num", val |-> n]
Other == [kind |-> "other", val |-> <<>>]

\* entity.get(key): a missing key reads as None
Get(v) == IF v.kind = "missing" THEN Null ELSE v

\* bool(value) of a parsed JSON value
TruthyJson(v) ==
    CASE v.kind = "str" -> v.val # <<>>
      [] v.kind = "num" -> v.val # 0
      [] v.kind = "other" -> TRUE
      [] OTHER -> FALSE

\* one element of the JSON array an extractor prompt asks for
RawEntity(name, definition, confidence, domain) ==
    [name |-> name, definition |-> definition, confidence |-> confidence,
     domain |-> domain, entity_type |-> None]

\* A completion is what one chat.completions.create call produced: the call
\* raised, or its content was not JSON ("invalid"), a JSON value that is not
\* an array ("object"), or a JSON array ("list") of items.
Raise == [kind |-> "raise", items |-> <<>>]
Invalid == [kind |-> "invalid", items |-> <<>>]
Object == [kind |-> "object", items |-> <<>>]
List(items) == [kind |-> "list", items |-> items]

----------------------------------------------------------------------------
(* nodes/chunk_retriever.py                                                *)

\* the except branch of retrieve_chunk
RetrievalError(st) ==
    [st EXCEPT !.errors = Append(@, <<"Error retrieving chunk">>),
               !.should_process = FALSE,
               !.skip_reason = Some(<<"retrieval_error">>)]

\* the "if not chunk_data" branch
ChunkNotFound(st) ==
    [st EXCEPT !.errors = Append(@, <<"Chunk not found in database", st.chunk_id>>),
               !.should_process = FALSE,
               !.skip_reason = Some(<<"chunk_not_found">>)]

\* the reason is assigned whatever the verdict, so an eligible chunk gets
\* the empty reason
ChunkFound_always_reason(st, row) ==
    LET st1 == [st EXCEPT !.chunk_text = row.text,
                          !.chunk_type = row.chunk_type,
                          !.chunk_metadata =
                              Some([token_count |-> row.token_count,
                                    book_id |-> row.book_id,
                                    position |-> row.position])]
    IN  IF row.text = None THEN RetrievalError(st1)
        ELSE LET verdict == should_process_chunk(row.text[1], row.chunk_type)
             IN  IF verdict[1]
                 THEN [st1 EXCEPT !.should_process = TRUE,
                                  !.skip_reason = Some(verdict[2])]
                 ELSE [st1 EXCEPT !.should_process = FALSE,
                                  !.skip_reason = Some(verdict[2]),
                                  !.warnings =
                                      Append(@, <<"Skipping chunk", verdict[2]>>)]

\* the lines after the lookup returned a row; a null text makes
\* should_process_chunk raise on chunk_text.strip(), after the three fields
\* were assigned
ChunkFound(st, row) ==
    LET st1 == [st EXCEPT !.chunk_text = row.text,
                          !.chunk_type = row.chunk_type,
                          !.chunk_metadata =
                              Some([token_count |-> row.token_count,
                                    book_id |-> row.book_id,
                                    position |-> row.position])]
    IN  IF row.text = None THEN RetrievalError(st1)
        ELSE LET verdict == should_process_chunk(row.text[1], row.chunk_type)
             IN  IF verdict[1] THEN [st1 EXCEPT !.should_process = TRUE]
                 ELSE [st1 EXCEPT !.should_process = FALSE,
                                  !.skip_reason = Some(verdict[2]),
                                  !.warnings =
                                      Append(@, <<"Skipping chunk", verdict[2]>>)]

\* the try block of retrieve_chunk for one outcome of get_chunk_data
retrieve_chunk_body(st, lookup_raises, chunk_data) ==
    IF lookup_raises THEN RetrievalError(st)
    ELSE IF chunk_data = None THEN ChunkNotFound(st)
    ELSE ChunkFound(st, chunk_data[1])

\* the finally block is left without the driver being closed
close_noop(open_drivers, close_ok) == open_drivers

\* Neo4jClient.close: the number of open drivers once driver.close() has
\* returned (close_ok) or raised
close(open_drivers, close_ok) ==
    IF close_ok THEN open_drivers - 1 ELSE open_drivers

\* Where control goes when a node's finally block has run: an exception
\* from client.close() replaces the node's return value and leaves the graph
\* run.
AfterClose(close_ok, next_node) == IF close_ok THEN next_node ELSE "RAISED"

\* retrieve_chunk as one step of the graph: Neo4jClient() is built before
\* the try, and client.close() runs in the finally.
retrieve_chunk ==
    /\ pc = "retrieve_chunk"
    /\ \E open_ok \in BOOLEAN, lookup_raises \in BOOLEAN, close_ok \in BOOLEAN :
         IF ~open_ok
         THEN /\ pc' = "RAISED"
              /\ raised' = "retrieve_chunk"
              /\ UNCHANGED <<state, lookup, conn, opened>>
         ELSE /\ state' = retrieve_chunk_body(state, lookup_raises,
                                              ChunkTable[state.chunk_id])
              /\ lookup' = IF lookup_raises THEN "raised"
                           ELSE IF ChunkTable[state.chunk_id] = None
                           THEN "missing" ELSE "found"
              /\ opened' = opened + 1
              /\ conn' = close(conn + 1, close_ok)
              /\ pc' = AfterClose(close_ok, "extract_entities")
              /\ raised' = IF close_ok THEN raised ELSE "retrieve_chunk"
    /\ UNCHANGED <<idx, graph, llm_log, write_log, responses, store_run,
                   snapshot, probe_in, probe_out>>

----------------------------------------------------------------------------
(* Completions the language model may return to the five extractor prompts *)

EntityGradient ==
    RawEntity(Str(<<"g", "r", "a", "d", "i", "e", "n", "t", " ", "d", "e", "s", "c", "e",
        "n", "t">>),
              Str(<<"a", "n", " ", "i", "t", "e", "r", "a", "t", "i", "v", "e", " ", "o",
                  "p", "t", "i", "m", "i", "z", "a", "t", "i", "o", "n", " ", "a", "l",
                  "g", "o", "r", "i", "t", "h", "m">>),
              Num(9), Str(<<"m", "a", "t", "h">>))
EntityTruncated ==
    RawEntity(Str(<<"l", "y", " ", "r", "e", "f", "e", "r", "r", "i", "n", "g", " ", "t",
        "o", " ", "X">>), Missing, Missing, Missing)
EntityCircular ==
    RawEntity(Str(<<"c", "h", "a", "i", "n", " ", "r", "u", "l", "e">>), Str(<<"t", "h",
        "e", " ", "c", "h", "a", "i", "n", " ", "r", "u", "l", "e">>), Missing, Missing)
EntityNoName ==
    RawEntity(Missing, Str(<<"a", "n", " ", "e", "n", "t", "i", "t", "y", " ", "w", "i",
        "t", "h", "o", "u", "t", " ", "a", " ", "n", "a", "m", "e">>), Missing, Missing)
EntityNumeral ==
    RawEntity(Str(<<"1", "2">>), Null, Missing, Missing)
EntityFormula ==
    RawEntity(Str(<<"f", "(", "x", ")", " ", "=", " ", "x", "^", "2">>), Str(<<"t", "h",
        "e", " ", "s", "q", "u", "a", "r", "e", " ", "o", "f", " ", "t", "h", "e", " ",
        "a", "r", "g", "u", "m", "e", "n", "t">>),
              Missing, Missing)
EntityBayes ==
    RawEntity(Str(<<"B", "a", "y", "e", "s", " ", "t", "h", "e", "o", "r", "e",
        "m">>), Null, Num(7), Missing)
EntityExample ==
    RawEntity(Str(<<"w", "o", "r", "k", "e", "d", " ", "e", "x", "a", "m", "p", "l",
        "e">>), Other, Missing, Missing)
EntityLegal ==
    RawEntity(Str(<<"s", "t", "a", "r", "e", " ", "d", "e", "c", "i", "s", "i",
        "s">>), Str(<<"s", "e", "e", " ", "a", "b", "o", "v", "e", " ", "f", "o", "r",
        " ", "t", "h", "e", " ", "d", "o", "c", "t", "r", "i", "n", "e">>),
              Missing, Str(<<"l", "a", "w">>))

Completions(category) ==
    CASE category = "concept" ->
             {Raise, List(<<EntityGradient, EntityTruncated>>),
              List(<<EntityTruncated, EntityNoName, EntityGradient>>)}
      [] category = "method" ->
             {Raise, Invalid, List(<<EntityCircular, EntityBayes>>)}
      [] category = "formula" ->
             {Raise, Object, List(<<EntityNumeral, EntityCircular>>),
              List(<<EntityFormula>>)}
      [] category = "example" ->
             {Raise, List(<<EntityExample>>), List(<<EntityGradient>>)}
      [] category = "legal_principle" ->
             {Raise, Invalid, List(<<EntityLegal>>)}

----------------------------------------------------------------------------
(* nodes/entity_extractor.py                                               *)

\* the superscripts two and three are written "SUP2" and "SUP3"
math_indicators == <<"$", "=", "+", "-", "*", "/", "^", "SUP2", "SUP3">>

legal_indicators ==
    << <<"c", "o", "u", "r", "t">>, <<"l", "a", "w">>, <<"r", "u", "l", "e">>, <<"s", "t",
        "a", "t", "u", "t", "e">>, <<"p", "r", "e", "c", "e", "d", "e", "n", "t">>,
       <<"j", "u", "r", "i", "s", "d", "i", "c", "t", "i", "o", "n">>, <<"l", "e", "g",
           "a", "l">>, <<"j", "u", "d", "g", "e">> >>

\* every extractor builds its prompt and issues the request
IssuesRequest_always(category, chunk_text) == TRUE

\* the guard in front of the request: extract_formulas and
\* extract_legal_principles return [] before building a prompt
IssuesRequest(category, chunk_text) ==
    CASE category = "formula" ->
             \E k \in 1..Len(math_indicators) :
                 Contains(<<math_indicators[k]>>, chunk_text)
      [] category = "legal_principle" ->
             ContainsAny(legal_indicators, Lower(chunk_text))
      [] OTHER -> TRUE

\* not (entity['name'].isdigit() and len(entity['name']) <= 2)
NotShortNumeral(entity) ==
    ~(IsDigitStr(entity.name.val) /\ Len(entity.name.val) <= MaxDigitNameLen)

\* what the extractor returns once the request came back: the try/except
\* around json.loads and, for formulas, around the numeral filter
ParseCompletion(category, completion) ==
    IF completion.kind # "list" THEN <<>>
    ELSE IF category # "formula" THEN completion.items
    ELSE IF \E k \in 1..Len(completion.items) :
                completion.items[k].name.kind # "str"
    THEN <<>>
    ELSE SelectSeq(completion.items, NotShortNumeral)

\* One pass of the validation loop over the entities of one category.
\* acc.error becomes Some(exception) at the first record on which the loop
\* body raises; warnings appended before that stay appended.
ValidateOne(acc, entity) ==
    IF acc.error # None THEN acc
    ELSE IF entity.name.kind = "missing" THEN [acc EXCEPT !.error = Some("KeyError")]
    ELSE IF entity.name.kind # "str" THEN [acc EXCEPT !.error = Some("AttributeError")]
    ELSE LET name == entity.name.val
             name_check == validate_entity_name(name)
         IN  IF ~name_check[1]
             THEN [acc EXCEPT !.warnings =
                       Append(@, <<"Invalid entity name", name, name_check[2]>>)]
             ELSE IF ~TruthyJson(Get(entity.definition))
             THEN [acc EXCEPT !.valid = Append(@, entity)]
             ELSE IF entity.definition.kind # "str"
             THEN [acc EXCEPT !.error = Some("AttributeError")]
             ELSE LET def_check ==
                          validate_entity_definition(entity.definition.val, name)
                  IN  IF def_check[1]
                      THEN [acc EXCEPT !.valid = Append(@, entity)]
                      ELSE [acc EXCEPT
                               !.warnings = Append(@, <<"Invalid definition",
                                                        name, def_check[2]>>),
                               !.valid = Append(@, [entity EXCEPT
                                                       !.definition = Null])]

RECURSIVE ValidateFrom(_, _)
ValidateFrom(acc, entities) ==
    IF entities = <<>> THEN acc
    ELSE ValidateFrom(ValidateOne(acc, Head(entities)), Tail(entities))

ValidateEntities(entities) ==
    ValidateFrom([valid |-> <<>>, warnings |-> <<>>, error |-> None], entities)

\* d[key] = value on a dict kept as a sequence of [key, value] in
\* insertion order
DictSet(d, key, value) ==
    IF \E k \in 1..Len(d) : d[k].key = key
    THEN [k \in 1..Len(d) |->
             IF d[k].key = key THEN [key |-> key, value |-> value] ELSE d[k]]
    ELSE Append(d, [key |-> key, value |-> value])

DictHas(d, key) == \E k \in 1..Len(d) : d[k].key = key
DictGet(d, key) == d[CHOOSE k \in 1..Len(d) : d[k].key = key].value

\* sum(len(entities) for entities in d.values())
RECURSIVE TotalEntities(_)
TotalEntities(d) ==
    IF d = <<>> THEN 0 ELSE Len(Head(d).value) + TotalEntities(Tail(d))

\* The body of "for extractor_type, task in tasks" for one task whose
\* coroutine ran to the given completion (None when the extractor returned
\* without a request).
CollectResult(st, category, completion) ==
    IF completion # None /\ completion[1].kind = "raise"
    THEN [st EXCEPT !.errors =
              Append(@, <<"Error in extractor", category, "APIError">>)]
    ELSE LET entities == IF completion = None THEN <<>>
                         ELSE ParseCompletion(category, completion[1])
             result == ValidateEntities(entities)
             st1 == [st EXCEPT !.warnings = @ \o result.warnings]
         IN  IF result.error # None
             THEN [st1 EXCEPT !.errors =
                       Append(@, <<"Error in extractor", category,
                                   result.error[1]>>)]
             ELSE IF result.valid # <<>>
             THEN [st1 EXCEPT !.extracted_entities =
                       DictSet(@, category, result.valid)]
             ELSE st1

\* a failed task ends the loop
NextTask_abort(i, failed) == IF failed THEN NumExtractors + 1 ELSE i + 1

\* the index of the task awaited after task i, whatever task i did
NextTask(i, failed) == i + 1

\* the metric counts the categories, len(state.extracted_entities)
UpdateMetrics_keys(st) ==
    [st EXCEPT !.entity_count = Len(st.extracted_entities)]

\* the "Update metrics" lines
UpdateMetrics(st) ==
    [st EXCEPT !.entity_count = TotalEntities(st.extracted_entities)]

\* the outer except branch (AsyncOpenAI() raised)
ExtractionError(st) ==
    [st EXCEPT !.errors = Append(@, <<"Error in entity extraction">>)]

\* the early return tests the text instead of the flag
Extracts_if_text(st) == st.chunk_text # None

\* whether the node goes past its early return
Extracts(st) == st.should_process

\* Entry of extract_entities: the short circuit, the client, the five
\* coroutine objects.  No coroutine runs before it is awaited.
extract_entities ==
    /\ pc = "extract_entities"
    /\ \E client_ok \in BOOLEAN :
         IF ~Extracts(state)
         THEN pc' = "enhance_relationships" /\ UNCHANGED <<state, idx>>
         ELSE IF ~client_ok
         THEN /\ state' = ExtractionError(state)
              /\ pc' = "enhance_relationships"
              /\ UNCHANGED idx
         ELSE pc' = "await_task" /\ idx' = 1 /\ UNCHANGED state
    /\ UNCHANGED <<lookup, conn, opened, graph, llm_log, write_log, responses,
                   raised, store_run, snapshot, probe_in, probe_out>>

\* "entities = await task" for task idx and the loop body that follows; after
\* the last task the metrics are updated and the node returns.
await_task ==
    /\ pc = "await_task"
    /\ idx \in 1..NumExtractors
    /\ LET category == Categories[idx]
           asks == IssuesRequest(category, state.chunk_text[1])
       IN  \E completion \in (IF asks THEN {Some(c) : c \in Completions(category)}
                              ELSE {None}) :
             LET st1 == CollectResult(state, category, completion)
                 failed == Len(st1.errors) > Len(state.errors)
                 next == NextTask(idx, failed)
             IN  /\ llm_log' = IF asks THEN Append(llm_log, category) ELSE llm_log
                 /\ responses' = [responses EXCEPT ![category] = Some(completion)]
                 /\ idx' = next
                 /\ IF next > NumExtractors
                    THEN state' = UpdateMetrics(st1) /\ pc' = "enhance_relationships"
                    ELSE state' = st1 /\ pc' = "await_task"
    /\ UNCHANGED <<lookup, conn, opened, graph, write_log, raised, store_run,
                   snapshot, probe_in, probe_out>>

----------------------------------------------------------------------------
(* nodes/relationship_enhancer.py                                          *)

MaxCandidates == 10
MinCandidates == 2

\* one element of the JSON array the relationship prompt asks for; an
\* element that is not a JSON object has is_dict = FALSE
RawRelationship(source, target, type) ==
    [is_dict |-> TRUE, source_entity |-> source, target_entity |-> target,
     relationship_type |-> type, confidence |-> Missing,
     description |-> Missing]

NotADict ==
    [is_dict |-> FALSE, source_entity |-> Missing, target_entity |-> Missing,
     relationship_type |-> Missing, confidence |-> Missing,
     description |-> Missing]

\* the names appended to all_entities, category by category
RECURSIVE AllEntityNames(_)
AllEntityNames(d) ==
    IF d = <<>> THEN <<>>
    ELSE [k \in 1..Len(Head(d).value) |-> Head(d).value[k].name.val]
         \o AllEntityNames(Tail(d))

\* no cut-off
Candidates_uncut(entities) == entities

\* entities[:10] when more than 10 names were collected
Candidates(entities) ==
    IF Len(entities) > MaxCandidates THEN SubSeq(entities, 1, MaxCandidates)
    ELSE entities

\* the condition of the "Validate relationships" loop
IsValidRelationship(rel, entities) ==
    /\ Get(rel.source_entity).kind = "str"
    /\ Get(rel.source_entity).val \in Range(entities)
    /\ Get(rel.target_entity).kind = "str"
    /\ Get(rel.target_entity).val \in Range(entities)
    /\ Get(rel.relationship_type).kind = "str"
    /\ Get(rel.relationship_type).val \in Range(RelationshipType)
    /\ Get(rel.source_entity) # Get(rel.target_entity)

\* find_entity_relationships once the request came back: anything that is
\* not an array of objects makes the try block raise and yields []
find_entity_relationships(all_names, completion) ==
    LET entities == Candidates(all_names)
        Keep(rel) == IsValidRelationship(rel, entities)
    IN  IF completion.kind # "list" THEN <<>>
        ELSE IF \E k \in 1..Len(completion.items) : ~completion.items[k].is_dict
        THEN <<>>
        ELSE SelectSeq(completion.items, Keep)

\* the lines of enhance_relationships after the request came back
SetRelationships(st, relationships) ==
    [st EXCEPT !.entity_relationships = relationships,
               !.relationship_count = Len(relationships)]

\* the except branch starts the error list afresh
EnhancementError_reset(st) ==
    [st EXCEPT !.errors = << <<"Error in relationship enhancement">> >>]

\* the except branch of enhance_relationships
EnhancementError(st) ==
    [st EXCEPT !.errors = Append(@, <<"Error in relationship enhancement">>)]

\* whether the node goes past its two early returns
Enhances(st) ==
    /\ st.should_process
    /\ st.entity_count # 0
    /\ Len(AllEntityNames(st.extracted_entities)) >= MinCandidates

\* the names handed to find_entity_relationships (none when the node
\* returns early)
EnhanceNames ==
    IF Enhances(state) THEN AllEntityNames(state.extracted_entities) ELSE <<>>

\* enhance_relationships when the request returns one of completions
EnhanceWith(completions) ==
    /\ pc = "enhance_relationships"
    /\ IF ~Enhances(state)
       THEN UNCHANGED <<state, llm_log, responses>>
       ELSE LET names == EnhanceNames
            IN  \E client_ok \in BOOLEAN, completion \in completions :
                  IF ~client_ok
                  THEN /\ state' = EnhancementError(state)
                       /\ UNCHANGED <<llm_log, responses>>
                  ELSE /\ llm_log' = Append(llm_log, "relationships")
                       /\ responses' = [responses EXCEPT
                                           !["relationships"] = Some(Some(completion))]
                       /\ state' =
                            IF completion.kind = "raise"
                            THEN EnhancementError(state)
                            ELSE SetRelationships(state,
                                     find_entity_relationships(names, completion))
    /\ pc' = "store_results"
    /\ UNCHANGED <<idx, lookup, conn, opened, graph, write_log, raised,
                   store_run, snapshot, probe_in, probe_out>>

NameUnknown == <<"o", "m", "e", "g", "a">>

\* completions offered in a run of the whole graph
RelSamples(names) ==
    IF Len(names) < MinCandidates THEN {} ELSE
    {Raise, Invalid,
     List(<<RawRelationship(Str(names[1]), Str(names[2]), Str("USES"))>>),
     List(<<RawRelationship(Str(names[2]), Str(names[1]), Str("PART_OF")),
            RawRelationship(Str(names[1]), Str(names[1]), Str("USES")),
            RawRelationship(Str(names[1]), Str(NameUnknown), Str("USES")),
            RawRelationship(Str(names[1]), Str(names[2]), Str("CAUSES"))>>)}

enhance_relationships == EnhanceWith(RelSamples(EnhanceNames))

----------------------------------------------------------------------------
(* utils/neo4j_client.py and nodes/storage_writer.py                       *)

\* The graph store holds entity nodes and two kinds of edges.  Nodes are
\* identified by their position in nodes; an edge refers to its end nodes by
\* position, so two nodes or two edges with equal content are two elements.
\* The created_at timestamps are not kept.
EmptyGraph == [nodes |-> <<>>, chunk_edges |-> <<>>, rel_edges |-> <<>>]

DefaultConfidence == 8

\* entity_type.title() on the keys of the extractors dict
Title(entity_type) ==
    CASE entity_type = "concept" -> "Concept"
      [] entity_type = "method" -> "Method"
      [] entity_type = "formula" -> "Formula"
      [] entity_type = "question" -> "Question"
      [] entity_type = "example" -> "Example"
      [] entity_type = "legal_principle" -> "Legal_Principle"
      [] entity_type = "case_citation" -> "Case_Citation"

\* Neo4jClient._get_relationship_type
get_relationship_type(entity_type) ==
    CASE entity_type = "concept" -> "DEFINED_IN"
      [] entity_type = "method" -> "EXPLAINED_IN"
      [] entity_type = "formula" -> "APPEARS_IN"
      [] entity_type = "question" -> "ASKED_IN"
      [] entity_type = "example" -> "DESCRIBED_IN"
      [] entity_type = "legal_principle" -> "STATED_IN"
      [] entity_type = "case_citation" -> "CITED_IN"
      [] OTHER -> "APPEARS_IN"

\* d.get(key, default)
GetDefault(v, default) == IF v.kind = "missing" THEN default ELSE v

\* the elements of a set of numbers in increasing order
RECURSIVE SortedSeq(_)
SortedSeq(S) ==
    IF S = {} THEN <<>>
    ELSE LET m == CHOOSE x \in S : \A y \in S : x <= y
         IN  <<m>> \o SortedSeq(S \ {m})

\* CREATE in place of MERGE
MergeNode_create(nodes, label, name) ==
    Append(nodes, [label |-> label, name |-> name, definition |-> Null,
                   confidence |-> Null, domain |-> Null])

\* MERGE (e:Label {name: $name}): the nodes bound to e, after creating one
\* when none matches
MergeNode(nodes, label, name) ==
    IF \E k \in 1..Len(nodes) : nodes[k].label = label /\ nodes[k].name = name
    THEN nodes
    ELSE Append(nodes, [label |-> label, name |-> name, definition |-> Null,
                        confidence |-> Null, domain |-> Null])

\* MERGE of one edge: created only when no equal edge is there
MergeEdge(edges, edge) ==
    IF \E k \in 1..Len(edges) : edges[k] = edge THEN edges
    ELSE Append(edges, edge)

RECURSIVE MergeChunkEdges(_, _, _, _)
MergeChunkEdges(edges, chunk_id, type, bound) ==
    IF bound = <<>> THEN edges
    ELSE MergeChunkEdges(
             MergeEdge(edges, [chunk |-> chunk_id, type |-> type,
                               node |-> Head(bound)]),
             chunk_id, type, Tail(bound))

\* entity_query, run and committed on its own
EntityQuery(g, chunk_id, entity) ==
    IF ChunkTable[chunk_id] = None THEN g
    ELSE LET label == Title(entity.entity_type[1])
             name == entity.name.val
             nodes1 == MergeNode(g.nodes, label, name)
             bound == {k \in 1..Len(nodes1) :
                          nodes1[k].label = label /\ nodes1[k].name = name}
             nodes2 == [k \in 1..Len(nodes1) |->
                           IF k \in bound
                           THEN [nodes1[k] EXCEPT
                                    !.definition = Get(entity.definition),
                                    !.confidence =
                                        GetDefault(entity.confidence,
                                                   Num(DefaultConfidence)),
                                    !.domain =
                                        GetDefault(entity.domain,
                                                   Str(<<"g", "e", "n", "e", "r", "a", "l">>))]
                           ELSE nodes1[k]]
         IN  [g EXCEPT !.nodes = nodes2,
                       !.chunk_edges =
                           MergeChunkEdges(@, chunk_id,
                               get_relationship_type(entity.entity_type[1]),
                               SortedSeq(bound))]

\* MERGE (source)-[r:type]->(target) SET r.confidence, r.description for one
\* pair of bound nodes
MergeRelEdge(edges, s, t, rel) ==
    LET props == [source |-> s, type |-> rel.relationship_type.val,
                  target |-> t,
                  confidence |-> GetDefault(rel.confidence,
                                            Num(DefaultConfidence)),
                  description |-> Get(rel.description)]
        Same(e) == e.source = s /\ e.target = t /\ e.type = props.type
    IN  IF \E k \in 1..Len(edges) : Same(edges[k])
        THEN [k \in 1..Len(edges) |-> IF Same(edges[k]) THEN props ELSE edges[k]]
        ELSE Append(edges, props)

RECURSIVE MergeRelEdges(_, _, _, _)
MergeRelEdges(edges, sources, targets, rel) ==
    IF sources = <<>> THEN edges
    ELSE LET RECURSIVE Row(_, _)
             Row(es, ts) ==
                 IF ts = <<>> THEN es
                 ELSE Row(MergeRelEdge(es, Head(sources), Head(ts), rel), Tail(ts))
         IN  MergeRelEdges(Row(edges, targets), Tail(sources), targets, rel)

\* rel_query, run and committed on its own: source and target are matched
\* by name whatever their label
RelQuery(g, rel) ==
    LET sources == {k \in 1..Len(g.nodes) : g.nodes[k].name = rel.source_entity.val}
        targets == {k \in 1..Len(g.nodes) : g.nodes[k].name = rel.target_entity.val}
    IN  [g EXCEPT !.rel_edges =
             MergeRelEdges(@, SortedSeq(sources), SortedSeq(targets), rel)]

\* the relationship loop ahead of the entity loop
Queries_rels_first(entities, relationships) ==
    [k \in 1..Len(relationships) |->
            [kind |-> "relationship", arg |-> relationships[k]]]
    \o [k \in 1..Len(entities) |-> [kind |-> "entity", arg |-> entities[k]]]

\* the queries of one store_entities call in the order it issues them
Queries(entities, relationships) ==
    [k \in 1..Len(entities) |-> [kind |-> "entity", arg |-> entities[k]]]
    \o [k \in 1..Len(relationships) |->
            [kind |-> "relationship", arg |-> relationships[k]]]

RunQuery(g, chunk_id, query) ==
    IF query.kind = "entity" THEN EntityQuery(g, chunk_id, query.arg)
    ELSE RelQuery(g, query.arg)

\* session.run has no enclosing transaction: each query that returns is
\* committed.  The graph after the first `done' queries:
RECURSIVE Committed(_, _, _, _)
Committed(g, chunk_id, queries, done) ==
    IF done = 0 THEN g
    ELSE RunQuery(Committed(g, chunk_id, queries, done - 1), chunk_id,
                  queries[done])

\* Neo4jClient.store_entities when query number fail_at raises (0: none
\* does): the queries before it stay committed, those after are not issued.
store_entities(g, chunk_id, entities, relationships, fail_at) ==
    LET queries == Queries(entities, relationships)
        done == IF fail_at = 0 THEN Len(queries) ELSE fail_at - 1
    IN  Committed(g, chunk_id, queries, done)

\* the name each issued query carries, for the log of store queries
QueryLog(entities, relationships, fail_at) ==
    LET queries == Queries(entities, relationships)
        issued == IF fail_at = 0 THEN Len(queries) ELSE fail_at
    IN  [k \in 1..issued |->
            [kind |-> queries[k].kind,
             names |-> IF queries[k].kind = "entity"
                       THEN <<queries[k].arg.name.val>>
                       ELSE <<queries[k].arg.source_entity.val,
                              queries[k].arg.target_entity.val>>,
             ok |-> k # fail_at]]

\* "entity['entity_type'] = entity_type" on every entity of the state
TagEntities(d) ==
    [k \in 1..Len(d) |->
        [key |-> d[k].key,
         value |-> [j \in 1..Len(d[k].value) |->
                       [d[k].value[j] EXCEPT !.entity_type = Some(d[k].key)]]]]

\* all_entities
RECURSIVE Flatten(_)
Flatten(d) == IF d = <<>> THEN <<>> ELSE Head(d).value \o Flatten(Tail(d))

\* whether the node goes past its early return
Stores(st) == st.should_process /\ st.entity_count # 0

StoredOk(st, n, m) == [st EXCEPT !.warnings = Append(@, <<"Stored", n, m>>)]
StoreError(st) == [st EXCEPT !.errors = Append(@, <<"Error storing results">>)]

\* store_results as one step of the graph
store_results ==
    /\ pc = "store_results"
    /\ store_run' = store_run + 1
    /\ IF ~Stores(state)
       THEN /\ pc' = "END"
            /\ UNCHANGED <<state, conn, opened, graph, write_log, raised, snapshot>>
       ELSE \E open_ok \in BOOLEAN, close_ok \in BOOLEAN,
               fail_at \in 0..(state.entity_count
                               + Len(state.entity_relationships)) :
              IF ~open_ok
              THEN /\ pc' = "RAISED"
                   /\ raised' = "store_results"
                   /\ UNCHANGED <<state, conn, opened, graph, write_log, snapshot>>
              ELSE LET tagged == TagEntities(state.extracted_entities)
                       st1 == [state EXCEPT !.extracted_entities = tagged]
                       all_entities == Flatten(tagged)
                       rels == state.entity_relationships
                   IN  /\ graph' = store_entities(graph, state.chunk_id,
                                                  all_entities, rels, fail_at)
                       /\ write_log' = write_log
                                         \o QueryLog(all_entities, rels, fail_at)
                       /\ state' = IF fail_at = 0
                                   THEN StoredOk(st1, Len(all_entities), Len(rels))
                                   ELSE StoreError(st1)
                       /\ snapshot' = IF fail_at = 0 THEN Some(graph') ELSE snapshot
                       /\ opened' = opened + 1
                       /\ conn' = close(conn + 1, close_ok)
                       /\ pc' = AfterClose(close_ok, "END")
                       /\ raised' = IF close_ok THEN raised ELSE "store_results"
    /\ UNCHANGED <<idx, lookup, llm_log, responses, probe_in, probe_out>>

----------------------------------------------------------------------------
(* graph.py: one run of the compiled graph on one chunk id                 *)

\* nothing awaited yet: one entry per extractor task, one for the
\* relationship request
NoResponses == [c \in Range(Categories) \cup {"relationships"} |-> None]

Init ==
    /\ pc = "retrieve_chunk"
    /\ idx = 0
    /\ state \in {NewState(id) : id \in ChunkIds}
    /\ lookup = "none"
    /\ conn = 0
    /\ opened = 0
    /\ graph = EmptyGraph
    /\ llm_log = <<>>
    /\ write_log = <<>>
    /\ responses = NoResponses
    /\ raised = "none"
    /\ store_run = 0
    /\ snapshot = None
    /\ probe_in = None
    /\ probe_out = None

Next ==
    \/ retrieve_chunk
    \/ extract_entities
    \/ await_task
    \/ enhance_relationships
    \/ store_results

Spec == Init /\ [][Next]_vars

----------------------------------------------------------------------------
(* should_process_chunk on its own, over a family of chunk texts           *)

\* every variable but the probe, at rest
AtRest ==
    /\ idx = 0
    /\ lookup = "none"
    /\ conn = 0
    /\ opened = 0
    /\ llm_log = <<>>
    /\ write_log = <<>>
    /\ responses = NoResponses
    /\ raised = "none"
    /\ store_run = 0
    /\ snapshot = None

\* Texts are head + a run of the letter a + tail; the run lengths sit on both
\* sides of the thresholds 50, 100 and 200.
TextHeads ==
    {<<>>, <<" ", " ">>, <<"!", "[">>, <<"#", "#", " ", "P", "a", "g", "e", " ", "1", "2",
        "\n">>, <<"$", "$", "$", "$", "$", "$", "$", "$", "$", "$">>, <<"$", "$", "$",
        "$", "$", "$", "$", "$", "$", "$", "$">>}
TextFills == {0, 30, 37, 38, 39, 47, 48, 49, 50, 99, 100, 199, 200}
TextTails ==
    {<<>>, <<"\n", ".", ".", ".">>, <<"\n", "\n">>, <<"\n", "\n", "\n", "\n">>, <<"\n",
        "\n", "\n", "\n", "\n", "\n">>,
     <<"\n", "x", "\n", "x", "\n", "x", "\n", "x", "\n", "x">>, <<"\n", "x", "\n", "x",
         "\n", "x", "\n", "x", "\n", "x", "\n", "x">>}
ChunkTexts ==
    {head \o Rep("a", n) \o tail :
        head \in TextHeads, n \in TextFills, tail \in TextTails}
    \cup {TextGradient, TextCourt, TextPage, TextRevenue}
ChunkTypes ==
    {None, Some(""), Some("paragraph"), Some("section"), Some("subsection"),
     Some("table")}

InitChunk ==
    /\ pc = "probe"
    /\ state = NewState("c0")
    /\ graph = EmptyGraph
    /\ AtRest
    /\ probe_in \in {Some([text |-> text, type |-> type]) :
                        text \in ChunkTexts, type \in ChunkTypes}
    /\ probe_out = None

ApplyShouldProcess ==
    /\ pc = "probe"
    /\ probe_out = None
    /\ probe_out' = Some(should_process_chunk(probe_in[1].text, probe_in[1].type))
    /\ pc' = "probed"
    /\ UNCHANGED <<idx, state, lookup, conn, opened, graph, llm_log, write_log,
                   responses, raised, store_run, snapshot, probe_in>>

NextChunk == ApplyShouldProcess

SpecChunk == InitChunk /\ [][NextChunk]_vars

----------------------------------------------------------------------------
(* enhance_relationships on its own, from states extract_entities can      *)
(* leave: up to eleven names, any short list of relationship records       *)

MaxRelItems == 2

EntityNames ==
    << <<"a", "l", "p", "h", "a">>, <<"b", "e", "t", "a">>, <<"g", "a", "m", "m",
        "a">>, <<"d", "e", "l", "t", "a">>, <<"e", "p", "s", "i", "l", "o", "n">>, <<"z",
        "e", "t", "a">>,
       <<"e", "t", "a">>, <<"t", "h", "e", "t", "a">>, <<"i", "o", "t", "a">>, <<"k", "a",
           "p", "p", "a">>, <<"l", "a", "m", "b", "d", "a">> >>

Named(from, to) ==
    [k \in 1..(to - from + 1) |->
        RawEntity(Str(EntityNames[from + k - 1]), Null, Missing, Missing)]

ExtractedSets ==
    { << [key |-> "concept", value |-> Named(1, 1)] >>,
      << [key |-> "concept", value |-> Named(1, 2)] >>,
      << [key |-> "concept", value |-> Named(1, 10)] >>,
      << [key |-> "concept", value |-> Named(1, 6)],
         [key |-> "method", value |-> Named(7, 11)] >>,
      << [key |-> "concept", value |-> Named(1, 11)] >> }

\* the state extract_entities returns for chunk c1 with these entities
Extracted(d) ==
    UpdateMetrics([ChunkFound(NewState("c1"), ChunkTable["c1"][1])
                      EXCEPT !.extracted_entities = d])

\* sequences of at most n elements of S
RECURSIVE SeqsUpTo(_, _)
SeqsUpTo(S, n) ==
    IF n = 0 THEN {<<>>}
    ELSE LET shorter == SeqsUpTo(S, n - 1)
         IN  shorter \cup {Append(s, x) : s \in shorter, x \in S}

RelRecords(names) ==
    {RawRelationship(s, t, type) :
        s \in {Str(names[1]), Str(names[Len(names)]), Str(NameUnknown), Null},
        t \in {Str(names[1]), Str(names[2]), Str(names[Len(names)])},
        type \in {Str("USES"), Str("CAUSES")}}

RelAll(names) ==
    IF Len(names) < MinCandidates THEN {} ELSE
    {Raise, Invalid, Object, List(<<NotADict>>),
     List(<<RawRelationship(Str(names[1]), Str(names[2]), Str("USES")),
            NotADict>>)}
    \cup {List(items) : items \in SeqsUpTo(RelRecords(names), MaxRelItems)}

InitRel ==
    /\ pc = "enhance_relationships"
    /\ state \in {Extracted(d) : d \in ExtractedSets}
    /\ graph = EmptyGraph
    /\ AtRest
    /\ probe_in = None
    /\ probe_out = None

enhance_relationships_any == EnhanceWith(RelAll(EnhanceNames))

NextRel == enhance_relationships_any

SpecRel == InitRel /\ [][NextRel]_vars

----------------------------------------------------------------------------
(* store_results run again and again on the state enhance_relationships    *)
(* returned, against a graph store that keeps what earlier runs wrote      *)

MaxRuns == 2

Relation(source, target, type) ==
    RawRelationship(Str(source), Str(target), Str(type))

StoredEntitySets ==
    { << [key |-> "concept", value |-> <<EntityGradient>>],
         [key |-> "method", value |-> <<EntityCircular>>] >>,
      << [key |-> "concept", value |-> <<EntityGradient, EntityBayes>>],
         [key |-> "method", value |-> <<EntityCircular>>],
         [key |-> "example", value |-> <<EntityGradient>>] >> }

StoredRelationshipSets ==
    { <<>>,
      << Relation(EntityGradient.name.val, EntityCircular.name.val, "USES") >>,
      << Relation(EntityGradient.name.val, EntityCircular.name.val, "USES"),
         Relation(EntityCircular.name.val, EntityGradient.name.val, "PART_OF"),
         Relation(EntityGradient.name.val, EntityCircular.name.val, "USES") >> }

\* what the store may hold before the run: nothing, or a node that an
\* earlier run on another chunk left under another label
InitialGraphs ==
    { EmptyGraph,
      [nodes |-> << [label |-> "Method", name |-> EntityGradient.name.val,
                     definition |-> Null, confidence |-> Num(5),
                     domain |-> Str(<<"g", "e", "n", "e", "r", "a", "l">>)] >>,
       chunk_edges |-> << [chunk |-> "c3", type |-> "EXPLAINED_IN", node |-> 1] >>,
       rel_edges |-> <<>>] }

InitStore ==
    /\ pc = "store_results"
    /\ state \in {SetRelationships(Extracted(d), r) :
                     d \in StoredEntitySets, r \in StoredRelationshipSets}
    /\ graph \in InitialGraphs
    /\ AtRest
    /\ probe_in = None
    /\ probe_out = None

\* the storage writer is invoked once more on the state it returned
store_again ==
    /\ pc = "END"
    /\ store_run < MaxRuns
    /\ pc' = "store_results"
    /\ UNCHANGED <<idx, state, lookup, conn, opened, graph, llm_log, write_log,
                   responses, raised, store_run, snapshot, probe_in, probe_out>>

NextStore ==
    \/ store_results
    \/ store_again

SpecStore == InitStore /\ [][NextStore]_vars

----------------------------------------------------------------------------
(* validate_entity_name on its own, over names put together from pieces    *)
(* that each trip one of its checks                                        *)

MaxNamePieces == 3

NamePieces ==
    {<<"l", "y">>, <<"T", "h", "e">>, <<" ">>, <<".", ".", ".">>, <<"7">>, <<"_">>, <<"i",
        "n", "d", "e", "x">>, <<"a", "b">>, <<"!", "!", "!">>}

RECURSIVE NamesUpTo(_)
NamesUpTo(n) ==
    IF n = 0 THEN {<<>>}
    ELSE LET shorter == NamesUpTo(n - 1)
         IN  shorter \cup {s \o p : s \in shorter, p \in NamePieces}

InitName ==
    /\ pc = "probe"
    /\ state = NewState("c0")
    /\ graph = EmptyGraph
    /\ AtRest
    /\ probe_in \in {Some(name) : name \in NamesUpTo(MaxNamePieces)}
    /\ probe_out = None

ApplyValidateName ==
    /\ pc = "probe"
    /\ probe_out = None
    /\ probe_out' = Some(validate_entity_name(probe_in[1]))
    /\ pc' = "probed"
    /\ UNCHANGED <<idx, state, lookup, conn, opened, graph, llm_log, write_log,
                   responses, raised, store_run, snapshot, probe_in>>

NextName == ApplyValidateName

SpecName == InitName /\ [][NextName]_vars

----------------------------------------------------------------------------
(* Properties                                                              *)

AfterExtract == pc \in {"enhance_relationships", "store_results", "END"}

\* C1: no error is fatal: whatever the graph store and the language model
\* do (chunk not found, an exception from a lookup, a write, a completion
\* request, from opening or closing the store connection), no exception
\* leaves retrieve_chunk, extract_entities, enhance_relationships or
\* store_results, so the run is never cut short before END.
C1_NoErrorFatal == pc # "RAISED" /\ raised = "none"

\* C2: skip gate: once retrieve_chunk has left should_process false, no later
\* step sets it back to true, issues a completion request or writes to the
\* graph store, and entity_count = 0, relationship_count = 0,
\* extracted_entities and entity_relationships stay empty to the exit.
C2_SkipGate ==
    [][~state.should_process =>
          /\ ~state'.should_process
          /\ llm_log' = <<>>
          /\ write_log' = <<>>
          /\ graph' = EmptyGraph
          /\ state'.entity_count = 0
          /\ state'.relationship_count = 0
          /\ state'.extracted_entities = <<>>
          /\ state'.entity_relationships = <<>>]_vars

\* an ineligible chunk went through the four nodes
C2_Witness ==
    /\ pc = "END"
    /\ lookup = "found"
    /\ state.chunk_text # None
    /\ ~state.should_process
    /\ store_run = 1

ExtractorErrorCount(st, category) ==
    Cardinality({k \in 1..Len(st.errors) :
                    /\ st.errors[k][1] = "Error in extractor"
                    /\ st.errors[k][2] = category})

EntitiesOf(st, category) ==
    IF DictHas(st.extracted_entities, category)
    THEN DictGet(st.extracted_entities, category)
    ELSE <<>>

\* what a category keeps when its extractor is the only one that runs
Survivors(category, completion) ==
    LET result == ValidateEntities(
                      IF completion = None THEN <<>>
                      ELSE ParseCompletion(category, completion[1]))
    IN  IF result.error # None THEN <<>> ELSE result.valid

CallRaised(category) ==
    /\ responses[category] # None
    /\ responses[category][1] # None
    /\ responses[category][1][1].kind = "raise"

\* C3: partial extractor failure is isolated: whichever of the five
\* completion requests raise, every task is still awaited, each category
\* whose request raised has exactly one error naming it and no entities, and
\* each other category holds exactly the entities that survive validation of
\* its own completion.
C3_Isolation ==
    pc \in {"await_task", "enhance_relationships"} =>
        /\ pc = "enhance_relationships" /\ idx > 0 => idx = NumExtractors + 1
        /\ \A k \in 1..NumExtractors :
               k < idx =>
                   LET category == Categories[k]
                   IN  /\ responses[category] # None
                       /\ IF CallRaised(category)
                          THEN /\ ExtractorErrorCount(state, category) = 1
                               /\ EntitiesOf(state, category) = <<>>
                          ELSE EntitiesOf(state, category)
                                   = Survivors(category, responses[category][1])

\* the first and the fourth request raised, the second category kept its
\* entities
C3_Witness ==
    /\ pc = "enhance_relationships"
    /\ CallRaised("concept")
    /\ CallRaised("example")
    /\ ~CallRaised("method")
    /\ Len(EntitiesOf(state, "method")) = 2

FirstTen(names) == [k \in 1..(IF Len(names) > 10 THEN 10 ELSE Len(names)) |-> names[k]]

\* C4: relationship filtering: every record left in entity_relationships has
\* a source and a target among the first 10 names collected from
\* extracted_entities, a type among RELATED_TO, PREREQUISITE_OF, PART_OF,
\* USES, SIMILAR_TO, APPLIED_IN, and a source different from its target.
C4_Filtered ==
    pc = "store_results" =>
        LET candidates == Range(FirstTen(AllEntityNames(state.extracted_entities)))
        IN  \A k \in 1..Len(state.entity_relationships) :
                LET rel == state.entity_relationships[k]
                IN  /\ rel.source_entity.kind = "str"
                    /\ rel.source_entity.val \in candidates
                    /\ rel.target_entity.kind = "str"
                    /\ rel.target_entity.val \in candidates
                    /\ rel.relationship_type.kind = "str"
                    /\ rel.relationship_type.val \in
                           {"RELATED_TO", "PREREQUISITE_OF", "PART_OF", "USES",
                            "SIMILAR_TO", "APPLIED_IN"}
                    /\ rel.source_entity.val # rel.target_entity.val

\* eleven names, a reply with a valid record and one whose source is the
\* eleventh name: only the first is kept
C4_Witness ==
    /\ pc = "store_results"
    /\ Len(AllEntityNames(state.extracted_entities)) = 11
    /\ responses["relationships"] =
           Some(Some(List(<<Relation(EntityNames[1], EntityNames[2], "USES"),
                            Relation(EntityNames[11], EntityNames[1], "USES")>>)))
    /\ state.entity_relationships =
           <<Relation(EntityNames[1], EntityNames[2], "USES")>>

HasNode(g, label, name) ==
    \E k \in 1..Len(g.nodes) : g.nodes[k].label = label /\ g.nodes[k].name = name

AllWritten(g, st) ==
    /\ \A e \in Range(Flatten(st.extracted_entities)) :
           /\ e.entity_type # None
           /\ HasNode(g, Title(e.entity_type[1]), e.name.val)
           /\ \E k \in 1..Len(g.chunk_edges) :
                  /\ g.chunk_edges[k].chunk = st.chunk_id
                  /\ g.nodes[g.chunk_edges[k].node].name = e.name.val
    /\ \A r \in Range(st.entity_relationships) :
           \E k \in 1..Len(g.rel_edges) :
               /\ g.rel_edges[k].type = r.relationship_type.val
               /\ g.nodes[g.rel_edges[k].source].name = r.source_entity.val
               /\ g.nodes[g.rel_edges[k].target].name = r.target_entity.val

SomeWriteFailed == \E k \in 1..Len(write_log) : ~write_log[k].ok

NoDuplicates(g) ==
    /\ \A i, j \in 1..Len(g.nodes) :
           (g.nodes[i].label = g.nodes[j].label
            /\ g.nodes[i].name = g.nodes[j].name) => i = j
    /\ \A i, j \in 1..Len(g.chunk_edges) :
           (g.chunk_edges[i].chunk = g.chunk_edges[j].chunk
            /\ g.chunk_edges[i].type = g.chunk_edges[j].type
            /\ g.chunk_edges[i].node = g.chunk_edges[j].node) => i = j
    /\ \A i, j \in 1..Len(g.rel_edges) :
           (g.rel_edges[i].source = g.rel_edges[j].source
            /\ g.rel_edges[i].type = g.rel_edges[j].type
            /\ g.rel_edges[i].target = g.rel_edges[j].target) => i = j

\* C6: storage idempotence: once the storage writer has stored a chunk id,
\* entity list and relationship list, running it again on the same three
\* leaves the graph store as the first run left it, and the store never
\* holds two nodes with one (label, name), two equal chunk edges or two
\* relationship edges of one type between the same two nodes.
C6_Idempotent ==
    /\ NoDuplicates(graph)
    /\ snapshot # None => graph = snapshot[1]

\* two complete runs, over a store that already held a node of the same name
C6_Witness ==
    /\ pc = "END"
    /\ store_run >= 2
    /\ snapshot # None
    /\ ~SomeWriteFailed
    /\ Len(write_log) >= 2 * (state.entity_count + Len(state.entity_relationships))
    /\ Len(state.entity_relationships) = 3
    /\ Len(graph.nodes) > state.entity_count
    /\ Len(graph.rel_edges) >= 2

\* C7: after extract_entities no category key of extracted_entities maps to
\* an empty list and entity_count is the number of entity records over all
\* categories; the equality still holds at the exit.
C7_CountMatches ==
    /\ \A k \in 1..Len(state.extracted_entities) :
           state.extracted_entities[k].value # <<>>
    /\ (AfterExtract \/ pc = "RAISED") =>
           state.entity_count = Len(Flatten(state.extracted_entities))

\* three entities in two categories, and a category whose only entity was
\* rejected
C7_Witness ==
    /\ pc = "END"
    /\ state.entity_count = 3
    /\ Len(state.extracted_entities) = 2
    /\ responses["formula"] = Some(Some(List(<<EntityFormula>>)))
    /\ ~DictHas(state.extracted_entities, "formula")

\* C8: chunk not found: when the lookup returns no chunk, retrieve_chunk
\* appends an error, sets should_process = false and skip_reason =
\* "chunk_not_found", leaves chunk_text, chunk_type and chunk_metadata absent
\* and returns without raising; the run completes with zero entities.
C8_ChunkNotFound ==
    lookup = "missing" =>
        /\ state.errors = << <<"Chunk not found in database", state.chunk_id>> >>
        /\ ~state.should_process
        /\ state.skip_reason = Some(<<"chunk_not_found">>)
        /\ state.chunk_text = None
        /\ state.chunk_type = None
        /\ state.chunk_metadata = None
        /\ state.entity_count = 0
        /\ pc # "RAISED"

\* the result of a list of (condition, reason) rules, first match winning
FirstMatch(rules) ==
    IF \E k \in 1..Len(rules) : rules[k][1]
    THEN <<FALSE, rules[CHOOSE k \in 1..Len(rules) :
                            rules[k][1] /\ \A j \in 1..(k - 1) : ~rules[j][1]][2]>>
    ELSE <<TRUE, <<>> >>

\* the rule list of the eligibility predicate; type_rule says when the
\* declared type counts as "not in {paragraph, section, subsection}"
EligibilityRules(text, type_rule, type_name) ==
    LET trimmed == Strip(text)
        lines == SplitLines(text)
        distinct == {Strip(lines[k]) : k \in 1..Len(lines)} \ {<<>>}
    IN  << <<Len(trimmed) < 50, <<"chunk_too_short">> >>,
           <<StartsWith(trimmed, <<"!", "[">>) /\ CountChar(text, "\n") <= 1,
             <<"image_only_chunk">> >>,
           <<HasNavPattern(text) /\ Len(JoinSpace(NonNavLines(text))) < 100,
             <<"navigation_only">> >>,
           <<Len(lines) > 5 /\ 100 * Cardinality(distinct) < 30 * Len(lines),
             <<"repetitive_content">> >>,
           <<type_rule /\ Len(trimmed) < 200, <<"non_content_type_", type_name>> >>,
           <<CountChar(text, "$") > 10 /\ Len(Strip(RemoveChar(text, "$"))) < 50,
             <<"formula_only">> >> >>

\* C9 as claimed: should_process_chunk equals the ordered rule list, first
\* match winning, for every text and every declared type, an absent or empty
\* type included: the type rule fires for every type outside {paragraph,
\* section, subsection}.
C9_RuleList_AnyType ==
    probe_out # None =>
        LET text == probe_in[1].text
            type == probe_in[1].type
        IN  probe_out[1] =
                FirstMatch(EligibilityRules(text,
                    type = None \/ type[1] \notin {"paragraph", "section", "subsection"},
                    IF type = None THEN "None" ELSE type[1]))

\* C9 amended: should_process_chunk equals the ordered rule list, first match
\* winning, where the type rule fires only for a declared type that is
\* present, non-empty and outside {paragraph, section, subsection}; an
\* absent or empty type skips that rule.
C9_RuleList ==
    probe_out # None =>
        LET text == probe_in[1].text
            type == probe_in[1].type
        IN  probe_out[1] =
                FirstMatch(EligibilityRules(text,
                    /\ type # None
                    /\ type[1] # ""
                    /\ type[1] \notin {"paragraph", "section", "subsection"},
                    IF type = None THEN "None" ELSE type[1]))

\* a text of 50 to 199 characters with no declared type is eligible
C9_Witness ==
    /\ probe_out = Some(<<TRUE, <<>> >>)
    /\ probe_in[1].type = None
    /\ Len(Strip(probe_in[1].text)) < 200

\* C10 as claimed: chunk c2, stored text "## Page 12\n...", type paragraph:
\* the run ends with should_process = false, skip_reason = "navigation_only",
\* entity_count = 0 and no completion request issued.
C10_Scenario_NavigationOnly ==
    (state.chunk_id = "c2" /\ lookup = "found") =>
        /\ ~state.should_process
        /\ state.skip_reason = Some(<<"navigation_only">>)
        /\ state.entity_count = 0
        /\ llm_log = <<>>

\* C10 amended: for the same chunk the run ends with should_process = false,
\* skip_reason = "chunk_too_short" (the 14-character text is caught by the
\* length rule, which is tested first), entity_count = 0 and no completion
\* request issued.
C10_Scenario ==
    (state.chunk_id = "c2" /\ lookup = "found") =>
        /\ ~state.should_process
        /\ state.skip_reason = Some(<<"chunk_too_short">>)
        /\ state.chunk_text = Some(TextPage)
        /\ state.entity_count = 0
        /\ llm_log = <<>>

C10_Witness ==
    /\ state.chunk_id = "c2"
    /\ lookup = "found"
    /\ pc = "END"
    /\ store_run = 1


\* the reason of the first check of the list that fails, or valid
FirstFailing(checks) ==
    IF \E k \in 1..Len(checks) : checks[k][1]
    THEN <<FALSE, checks[CHOOSE k \in 1..Len(checks) :
                            checks[k][1] /\ \A j \in 1..(k - 1) : ~checks[j][1]][2]>>
    ELSE <<TRUE, "">>

\* re.search of the seven truncation patterns, case ignored, on a name
TruncationPattern(name) ==
    \/ \E frag \in {<<"l", "y">>, <<"i", "n", "g">>, <<"e", "d">>, <<"e", "r">>, <<"a",
        "n", "d">>, <<"t", "h", "e">>} :
          /\ Len(name) > Len(frag)
          /\ Lower(SubSeq(name, 1, Len(frag))) = frag
          /\ name[Len(frag) + 1] \in {" ", "\t", "\n", "\r"}
    \/ \E k \in 1..(Len(name) - 2) : SubSeq(name, k, k + 2) = <<".", ".", ".">>

\* the six checks on a trimmed name, in the claimed order
NameChecks(name) ==
    LET alpha == Cardinality({k \in 1..Len(name) : IsAlpha(name[k])})
    IN  << <<Len(name) < 3, "too_short">>,
           <<TruncationPattern(name), "truncated_name">>,
           <<IsDigitStr(name) /\ Len(name) <= 2, "single_digit">>,
           <<ContainsAny(ocr_artifacts, name), "ocr_artifact">>,
           <<2 * alpha < Len(name), "mostly_punctuation">>,
           <<ContainsAny(meaningless, Lower(name)), "meaningless_phrase">> >>

C18_NoSingleDigit ==
    probe_out # None =>
        /\ probe_out[1][2] # "single_digit"
        /\ LET name == Strip(probe_in[1])
           IN  (IsDigitStr(name) /\ Len(name) <= 2)
                   => probe_out[1] = <<FALSE, "too_short">>

\* the numeral 77, padded with a blank, was rejected as too short
C18_Witness ==
    /\ probe_in = Some(<<"7", "7", " ">>)
    /\ probe_out = Some(<<FALSE, "too_short">>)

\* the characters extract_formulas looks for, the keywords
\* extract_legal_principles looks for in the lowered text
HasMathIndicator(text) ==
    \E k \in 1..Len(text) :
        text[k] \in {"$", "=", "+", "-", "*", "/", "^", "SUP2", "SUP3"}

HasLegalIndicator(text) ==
    \E word \in {<<"c", "o", "u", "r", "t">>, <<"l", "a", "w">>, <<"r", "u", "l",
        "e">>, <<"s", "t", "a", "t", "u", "t", "e">>, <<"p", "r", "e", "c", "e", "d", "e",
        "n", "t">>,
                 <<"j", "u", "r", "i", "s", "d", "i", "c", "t", "i", "o", "n">>, <<"l",
                     "e", "g", "a", "l">>, <<"j", "u", "d", "g", "e">>} :
        \E k \in 1..(Len(text) - Len(word) + 1) :
            Lower(SubSeq(text, k, k + Len(word) - 1)) = word

Gated(category) ==
    /\ state.chunk_text # None
    /\ \/ category = "formula" /\ ~HasMathIndicator(state.chunk_text[1])
       \/ category = "legal_principle" /\ ~HasLegalIndicator(state.chunk_text[1])

\* C12: gated extractors issue no request: on a chunk text without a math
\* indicator character the formula extractor, and on a chunk text without a
\* legal indicator keyword (case ignored) the legal-principle extractor,
\* returns an empty list without a completion request, so the category gets
\* no request, no entity, no warning and no error.
C12_Gated ==
    \A category \in {"formula", "legal_principle"} :
        Gated(category) =>
            /\ category \notin Range(llm_log)
            /\ responses[category] \in {None, Some(None)}
            /\ ~DictHas(state.extracted_entities, category)
            /\ ExtractorErrorCount(state, category) = 0

\* on the revenue paragraph both gated extractors were awaited and returned
\* without a request while the other three issued theirs
C12_Witness ==
    /\ pc = "END"
    /\ state.chunk_id = "c7"
    /\ Gated("formula") /\ Gated("legal_principle")
    /\ responses["formula"] = Some(None)
    /\ responses["legal_principle"] = Some(None)
    /\ llm_log = <<"concept", "method", "example", "relationships">>

IsPrefix(s, t) == Len(s) <= Len(t) /\ SubSeq(t, 1, Len(s)) = s

\* C13: errors and warnings are append-only: across every step of every
\* stage, on the success, skip and failure paths alike, the errors list and
\* the warnings list before the step are prefixes of the lists after it.
C13_AppendOnly ==
    [][/\ IsPrefix(state.errors, state'.errors)
       /\ IsPrefix(state.warnings, state'.warnings)]_vars

\* a run that collected errors in three stages and two warnings
C13_Witness ==
    /\ pc = "END"
    /\ Len(state.warnings) >= 2
    /\ Len(state.errors) >= 3
    /\ \E i, j, k \in 1..Len(state.errors) :
          /\ i < j /\ j < k
          /\ state.errors[i][1] = "Error in extractor"
          /\ state.errors[j][1] = "Error in relationship enhancement"
          /\ state.errors[k][1] = "Error storing results"

\* the loop body of extract_entities has run on the entities of a category
ValidationStarted ==
    \/ state.extracted_entities # <<>>
    \/ \E k \in 1..Len(state.warnings) :
          state.warnings[k][1] \in {"Invalid entity name", "Invalid definition"}

\* C14: the five extractors are launched together and validation starts
\* only when all five have completed or failed: no entity is validated while
\* the completion request of some extractor is pending or not yet issued.
C14_ValidateAfterAll ==
    ValidationStarted => \A k \in 1..NumExtractors : responses[Categories[k]] # None

\* what the validators say about one record on its own
OwnNameValid(entity) ==
    /\ entity.name.kind = "str"
    /\ validate_entity_name(entity.name.val)[1]

OwnDefinitionKept(entity) ==
    \/ ~TruthyJson(Get(entity.definition))
    \/ /\ entity.definition.kind = "str"
       /\ validate_entity_definition(entity.definition.val, entity.name.val)[1]

\* each record judged on its own: dropped when its name is invalid, kept
\* with its definition nulled when its definition is invalid
JudgedAlone(items) ==
    LET kept == SelectSeq(items, OwnNameValid)
    IN  [k \in 1..Len(kept) |->
            IF OwnDefinitionKept(kept[k]) THEN kept[k]
            ELSE [kept[k] EXCEPT !.definition = Null]]

\* C15: entities are validated independently: for every list of records an
\* extractor returned, records with a missing or non-string name included,
\* the category holds exactly the records whose own name is valid, each with
\* its definition nulled exactly when its own definition is invalid; an
\* invalid record removes no other record of the same extractor.
C15_Independent ==
    \A k \in 1..NumExtractors :
        LET category == Categories[k]
        IN  (/\ pc \in {"await_task", "enhance_relationships", "store_results"}
             /\ responses[category] # None
             /\ responses[category][1] # None
             /\ responses[category][1][1].kind = "list")
                => EntitiesOf(state, category)
                       = JudgedAlone(responses[category][1][1].items)

\* C16: connection lifecycle: retrieve_chunk and store_results each open at
\* most one connection per invocation and have closed it when they return,
\* on the found, not found, ineligible and exception paths alike; no
\* connection is open while extract_entities or enhance_relationships runs
\* or when the run reaches END, and store_results opens none when it
\* short-circuits.
C16_ConnectionLifecycle ==
    [][/\ opened' <= opened + 1
       /\ pc' # "RAISED" => conn' = 0
       /\ pc \in {"extract_entities", "await_task", "enhance_relationships"}
              => conn = 0 /\ opened' = opened
       /\ (pc = "store_results" /\ ~(state.should_process /\ state.entity_count # 0))
              => opened' = opened
       /\ pc' = "END" => conn' = 0]_vars

\* both nodes opened a connection and none is open at the end of the run
C16_Witness ==
    /\ pc = "END"
    /\ opened = 2
    /\ conn = 0
    /\ store_run = 1

\* the skip reason retrieve_chunk is claimed to leave for a row of the chunk
\* table: None for an eligible chunk
ExpectedSkipReason(row) ==
    IF row.text = None THEN Some(<<"retrieval_error">>)
    ELSE LET type == row.chunk_type
             verdict == FirstMatch(EligibilityRules(row.text[1],
                            /\ type # None
                            /\ type[1] # ""
                            /\ type[1] \notin {"paragraph", "section", "subsection"},
                            IF type = None THEN "None" ELSE type[1]))
         IN  IF verdict[1] THEN None ELSE Some(verdict[2])

\* C17: after retrieve_chunk, on every path, should_process is false if and
\* only if skip_reason holds a non-empty reason: an eligible found chunk
\* leaves skip_reason absent, and not found, ineligible and retrieval
\* exception each set should_process = false together with chunk_not_found,
\* the eligibility reason, retrieval_error.
C17_SkipReasonIff ==
    [][/\ ~state'.should_process
              <=> (state'.skip_reason # None /\ state'.skip_reason[1] # <<>>)
       /\ (pc = "retrieve_chunk" /\ lookup' # "none") =>
              /\ lookup' = "missing" =>
                     state'.skip_reason = Some(<<"chunk_not_found">>)
              /\ lookup' = "raised" =>
                     state'.skip_reason = Some(<<"retrieval_error">>)
              /\ lookup' = "found" =>
                     state'.skip_reason
                         = ExpectedSkipReason(ChunkTable[state.chunk_id][1])]_vars

\* an eligible chunk was found and went through the run with no skip reason
C17_Witness ==
    /\ pc = "END"
    /\ lookup = "found"
    /\ state.should_process
    /\ state.skip_reason = None
    /\ state.chunk_text # None

EntityIssuedBefore(k, name) ==
    \E i \in 1..(k - 1) :
        write_log[i].kind = "entity" /\ write_log[i].names = <<name>>

\* C19: write ordering in store_entities: when a relationship upsert is
\* issued, an entity upsert for its source name and one for its target name
\* were issued before it in the same invocation; every entity upsert
\* precedes every relationship upsert, so when an entity upsert fails the
\* invocation writes no relationship edge.
C19_WriteOrder ==
    /\ \A k \in 1..Len(write_log) :
           write_log[k].kind = "relationship" =>
               /\ EntityIssuedBefore(k, write_log[k].names[1])
               /\ EntityIssuedBefore(k, write_log[k].names[2])
               /\ \A i \in (k + 1)..Len(write_log) : write_log[i].kind # "entity"
    /\ (\E k \in 1..Len(write_log) :
            write_log[k].kind = "entity" /\ ~write_log[k].ok)
           => /\ graph.rel_edges = <<>>
              /\ \A k \in 1..Len(write_log) : write_log[k].kind # "relationship"

\* two entity upserts and then a relationship upsert between them went
\* through
C19_Witness ==
    /\ pc = "END"
    /\ Len(graph.rel_edges) >= 1
    /\ \E k \in 1..Len(write_log) :
          /\ write_log[k].kind = "relationship"
          /\ write_log[k].ok
          /\ write_log[k].names[1] # write_log[k].names[2]

====
